---- MODULE Spec2Model ----
(***************************************************************************)
(* Model of the synteny block detection and chaining engine of             *)
(* src/algorithms/synteny.py: synteny_scan (single linkage clustering),    *)
(* batch_scan, the chaining loop of mcscan, synteny_liftover, and the      *)
(* ranges of depth and breakpoint with their sweeps.                       *)
(***************************************************************************)
EXTENDS Integers, Sequences, FiniteSets, TLC

VARIABLES
    \* ---- synteny_scan ----
    input,      \* the point list as the caller passed it (snapshot at call time)
    points,     \* the caller's list object, which synteny_scan sorts in place
    xdist, ydist, N,
    i, j,       \* loop indices of the two nested loops (1-based here)
    mapping,    \* Grouper._mapping: point -> the member list of its group
    clusters,   \* the returned list of clusters
    joined,     \* history: the index pairs (i, j) handed to clusters.join
    pc,
    \* ---- the chaining loop of mcscan ----
    blocks,     \* the Ranges built from the anchor file (the pool before pass 1)
    ranges,     \* the pool of remaining Ranges
    tracks,     \* the tracks emitted so far
    iteration,
    iter,       \* opts.iter, the cap on the number of passes
    cpc,
    \* ---- synteny_liftover ----
    hits,       \* the argument `points`
    anchors,
    dist,       \* the argument `dist`
    dists, idxs,    \* the result of tree.query
    pos,        \* position of the zip loop
    lifted,     \* the points yielded so far
    lpc,
    \* ---- depth ----
    dblocks,    \* the blocks of the anchor file: the query genes of each
    qranges,
    endpoints,  \* the sorted start/end breakpoints of the sweep
    epos,       \* position of the sweep in `endpoints`
    depth,      \* the active-interval counter
    depthstore, \* multiplicity -> accumulated span length
    dpc,
    \* ---- breakpoint ----
    yblocks,    \* the blocks of one scaffold: the y values (yy) of each
    sblocks,
    iblocks,
    gpos,       \* position of the print loop in `iblocks`
    printed,    \* the BED lines printed so far
    gpc,
    \* ---- batch_scan ----
    records,    \* the argument `points`: (chromosome pair, point) records
    chr_pair_points,
    frames,     \* chromosome pair -> the activation of synteny_scan on it
    cur,        \* position of the loop in sorted(chr_pair_points.keys())
    bclusters,  \* the list `clusters` of batch_scan
    bargs,      \* the arguments xdist, ydist, N of batch_scan
    bpc,
    \* ---- the liftover command ----
    hitrecs,    \* the filtered blast: (chromosome pair, point) records
    anchorrecs, \* the anchor file: (chromosome pair, point) records
    lo_hits,    \* all_hits of liftover: chromosome pair -> hits
    lo_anchors, \* all_anchors of liftover: chromosome pair -> anchors
    lcur,       \* position of the loop in sorted(all_anchors.keys())
    emitted,    \* the lines printed: (chromosome pair, point)
    cdist,      \* opts.dist
    mpc,
    \* ---- read_blast ----
    rows,       \* the (query, subject) names of the rows of the blast file
    is_self,
    seen,
    filtered_blast,
    rpos,       \* position of the loop in the rows
    rpc,
    \* ---- mcscan: blocks read, tracks printed ----
    acblocks,   \* the blocks of the anchor file, each <<q, s>>
    ascii,      \* opts.ascii
    block_pairs,
    bcur,       \* position of `for b in bed:`
    mrows,      \* the rows printed, each <<id, atoms>>
    xpc

scanVars == <<input, points, xdist, ydist, N, i, j, mapping, clusters, joined, pc>>
chainVars == <<blocks, ranges, tracks, iteration, iter, cpc>>
liftVars == <<hits, anchors, dist, dists, idxs, pos, lifted, lpc>>
depthVars == <<dblocks, qranges, endpoints, epos, depth, depthstore, dpc>>
gapVars == <<yblocks, sblocks, iblocks, gpos, printed, gpc>>
batchVars == <<records, chr_pair_points, frames, cur, bclusters, bargs, bpc>>
cmdVars == <<hitrecs, anchorrecs, lo_hits, lo_anchors, lcur, emitted, cdist, mpc>>
blastVars == <<rows, is_self, seen, filtered_blast, rpos, rpc>>
mcVars == <<acblocks, ascii, block_pairs, bcur, mrows, xpc>>
laterVars == <<cmdVars, blastVars, mcVars>>
otherVars == <<depthVars, gapVars, batchVars, laterVars>>
vars == <<scanVars, chainVars, liftVars, otherVars>>

(***************************************************************************)
(* Bounds of the model.                                                    *)
(***************************************************************************)
MaxPoints == 3
MaxCoord == 2

MaxRanges == 3
MaxPos == 2
MaxHits == 2
MaxLift == 1

Coords == 0..MaxCoord
PointSet == Coords \X Coords
\* (xdist, ydist) pairs and minimum scores tried
Thresholds == {<<1, 1>>, <<2, 1>>}
MinScores == {1, 2}

SeqsUpTo(S, n) == UNION {[1..k -> S] : k \in 0..n}

\* the concrete scenario of the specification, section 8
ScenarioPoints == <<<<0, 0>>, <<1, 1>>, <<2, 2>>, <<100, 100>>>>
ScenarioInput == [points |-> ScenarioPoints, xdist |-> 5, ydist |-> 5, N |-> 2]


\* Range(seqid, start, end, score, id) with start <= end (q is sorted) and
\* score = len(q) >= 1; the id is the position of the block in the file
Scores == {1, 2}
Iters == {1, 2, 3}
Intervals == {iv \in (0..MaxPos) \X (0..MaxPos) : iv[1] <= iv[2]}
\* ranges.append(Range("0", q[0], q[-1], score=len(q), id=i)) for each block
MakeRanges(l) ==
    [k \in DOMAIN l |->
        [start |-> l[k][1][1], end |-> l[k][1][2], score |-> l[k][2], id |-> k]]

\* the concrete scenario of the specification, section 8
ScenarioRanges ==
    << [start |-> 0, end |-> 10, score |-> 5, id |-> 1],
       [start |-> 5, end |-> 15, score |-> 3, id |-> 2],
       [start |-> 20, end |-> 30, score |-> 4, id |-> 3] >>



\* hits and anchors of one chromosome pair
LiftPoints == (0..MaxLift) \X (0..MaxLift)
AnchorLists == UNION {[1..n -> LiftPoints] : n \in {0, 1, 2}}
\* hits that carry a field after the two coordinates
Extras == {9}
LiftPoints3 == {<<p[1], p[2], e>> : p \in LiftPoints, e \in Extras}
Dists == {1, 2}

\* the genes of the reference are numbered 0..MaxGene (len(qbed) of them)
MaxGene == 3
Genes == 0..MaxGene
\* the query genes of a block, in file order
GeneLists == UNION {[1..n -> Genes] : n \in {1, 2}}
BlockLists == UNION {[1..n -> GeneLists] : n \in {0, 1, 2, 3}}

\* the positions y = (b.start + b.end) / 2 on a scaffold are 0..MaxY
MaxY == 4
\* the y values of a block, in the order of the block
YLists == UNION {[1..n -> 0..MaxY] : n \in {1, 2}}
YBlockLists == UNION {[1..n -> YLists] : n \in {0, 1, 2, 3}}

\* records (chromosome pair, point) of the filtered blast; the chromosome
\* ids stand for chromosome names in their lexicographic order
MaxRecords == 4
ChrPairs == {<<1, 2>>, <<2, 1>>}
BatchPoints == {<<0, 0>>, <<1, 1>>, <<3, 0>>}

\* the longest input of the runs of the three components side by side
MaxShort == 2

\* the liftover command: hits and anchors per chromosome pair
MaxCmdHits == 2
CmdPoints == {<<0, 0>>, <<0, 1>>}
CmdRecords == ChrPairs \X CmdPoints
CmdAnchorRecs == UNION {[1..n -> CmdRecords] : n \in {0, 1, 2}}

\* read_blast: the genes of the bed file, name -> <<index, seqid>>, the
\* same file on both sides; "z" is a name that is in no bed file
MaxRows == 3
GeneOrder == [g \in {"a", "b", "c"} |->
                IF g = "a" THEN <<0, 1>> ELSE IF g = "b" THEN <<1, 2>> ELSE <<2, 1>>]
GeneNames == {"a", "b", "c", "z"}

\* mcscan: the genes of the reference bed file in file order, and blocks of
\* the anchor file over them: two blocks that meet in "r1", a block around
\* "r1" without it, a block of one gene, a block with the reference genes on
\* the subject side, a block listed in descending order
MaxBlocks == 2
BedGenes == <<"r0", "r1", "r2">>
AnchorBlocks ==
    { << <<"r0", "r1">>, <<"s0", "s1">> >>,
      << <<"r1", "r2">>, <<"s2", "s3">> >>,
      << <<"r0", "r2">>, <<"s4", "s5">> >>,
      << <<"r2">>, <<"s6">> >>,
      << <<"t0", "t1">>, <<"r0", "r1">> >>,
      << <<"r2", "r1">>, <<"s7", "s8">> >> }

(***************************************************************************)
(* Helpers                                                                 *)
(***************************************************************************)
Abs(v) == IF v < 0 THEN -v ELSE v
Min(a, b) == IF a <= b THEN a ELSE b
Max(a, b) == IF a >= b THEN a ELSE b
Range(s) == {s[k] : k \in DOMAIN s}

\* Python's tuple order on (x, y)
PointLe(p, q) == p[1] < q[1] \/ (p[1] = q[1] /\ p[2] <= q[2])

RECURSIVE InsertSorted(_, _)
InsertSorted(s, p) ==
    IF s = <<>> THEN <<p>>
    ELSE IF PointLe(p, Head(s)) THEN <<p>> \o s
    ELSE <<Head(s)>> \o InsertSorted(Tail(s), p)

\* list.sort() / sorted() on a list of points
RECURSIVE Sorted(_)
Sorted(s) == IF s = <<>> THEN <<>> ELSE InsertSorted(Sorted(Tail(s)), Head(s))

\* _score(cluster): min(number of distinct x, number of distinct y)
score(cluster) ==
    Min(Cardinality({p[1] : p \in Range(cluster)}),
        Cardinality({p[2] : p \in Range(cluster)}))

(***************************************************************************)
(* Grouper (jcvi.utils.grouper): a grouping keyed by the point values.     *)
(***************************************************************************)
\* every member of the list `grp` now refers to `grp`
Repoint(m, grp) ==
    [e \in DOMAIN m \cup Range(grp) |-> IF e \in Range(grp) THEN grp ELSE m[e]]

GrouperJoin(m, a, b) ==
    LET m1 == IF a \in DOMAIN m THEN m ELSE Repoint(m, <<a>>)
        set_a == m1[a]
    IN  IF b \notin DOMAIN m1 THEN Repoint(m1, Append(set_a, b))
        ELSE IF m1[b] # set_a
             THEN IF Len(m1[b]) > Len(set_a)
                  THEN Repoint(m1, m1[b] \o set_a)
                  ELSE Repoint(m1, set_a \o m1[b])
             ELSE m1

\* list(clusters): the distinct groups
GrouperGroups(m) == {m[e] : e \in DOMAIN m}

\* the orders in which a dict iteration may yield the members of S
Orderings(S) == {s \in [1..Cardinality(S) -> S] : Range(s) = S}

IdleDepth ==
    /\ dblocks = <<>> /\ qranges = <<>> /\ endpoints = <<>> /\ epos = 0
    /\ depth = 0 /\ depthstore = <<>> /\ dpc = "idle"

IdleGap ==
    /\ yblocks = <<>> /\ sblocks = <<>> /\ iblocks = <<>> /\ gpos = 0
    /\ printed = <<>> /\ gpc = "idle"

IdleBatch ==
    /\ records = <<>> /\ chr_pair_points = <<>> /\ frames = <<>> /\ cur = 0
    /\ bclusters = <<>> /\ bargs = <<>> /\ bpc = "idle"

IdleCmd ==
    /\ hitrecs = <<>> /\ anchorrecs = <<>> /\ lo_hits = <<>> /\ lo_anchors = <<>>
    /\ lcur = 0 /\ emitted = <<>> /\ cdist = 0 /\ mpc = "idle"

IdleBlast ==
    /\ rows = <<>> /\ is_self = FALSE /\ seen = {} /\ filtered_blast = <<>>
    /\ rpos = 0 /\ rpc = "idle"

IdleMc ==
    /\ acblocks = <<>> /\ ascii = FALSE /\ block_pairs = <<>>
    /\ bcur = 0 /\ mrows = <<>> /\ xpc = "idle"

IdleLater == IdleCmd /\ IdleBlast /\ IdleMc

IdleOther == IdleDepth /\ IdleGap /\ IdleBatch /\ IdleLater

IdleChain ==
    /\ blocks = <<>> /\ ranges = <<>> /\ tracks = <<>>
    /\ iteration = 0 /\ iter = 0 /\ cpc = "idle"

IdleLift ==
    /\ hits = <<>> /\ anchors = <<>> /\ dist = 0 /\ dists = <<>> /\ idxs = <<>>
    /\ pos = 0 /\ lifted = <<>> /\ lpc = "idle"

(***************************************************************************)
(* synteny_scan(points, xdist, ydist, N)                                   *)
(***************************************************************************)
IdleScan ==
    /\ input = <<>> /\ points = <<>> /\ xdist = 0 /\ ydist = 0 /\ N = 0
    /\ i = 0 /\ j = 0 /\ mapping = <<>> /\ clusters = <<>> /\ joined = {}
    /\ pc = "idle"

\* the call synteny_scan(p, xd, yd, n)
ScanCall(p, xd, yd, n) ==
    /\ input = p /\ points = p
    /\ xdist = xd /\ ydist = yd /\ N = n
    /\ i = 0 /\ j = 0 /\ mapping = <<>> /\ clusters = <<>> /\ joined = {}
    /\ pc = "start"

InitScan ==
    /\ \/ \E p \in SeqsUpTo(PointSet, MaxPoints), t \in Thresholds, n \in MinScores :
            ScanCall(p, t[1], t[2], n)
       \/ ScanCall(ScenarioInput.points, ScenarioInput.xdist,
                   ScenarioInput.ydist, ScenarioInput.N)
    /\ IdleChain /\ IdleLift /\ IdleOther

\* points left in the caller's order (the sort forgotten)
ListUnsorted(s) == s
\* points.sort()
ListSort(s) == Sorted(s)

\* the next (i, j) when the inner loop goes on from j (or is exhausted)
InnerNext(ii, jj) == IF jj = 1 THEN <<ii + 1, ii>> ELSE <<ii, jj - 1>>
\* the next (i, j) after `break`
BreakNext(ii, jj) == <<ii + 1, ii>>
\* `continue` taken for `break`
ContinueAsBreak(ii, jj) == <<ii + 1, ii>>
\* the next (i, j) after `continue`
ContinueNext(ii, jj) == InnerNext(ii, jj)

\* the filter left out
KeepAll(cluster, n) == TRUE
\* the filter _score(cluster) >= N
Keep(cluster, n) == score(cluster) >= n

\* the member list as the Grouper holds it
ClusterAsGrouped(cluster) == cluster
\* sorted(cluster)
SortedCluster(cluster) == Sorted(cluster)

\* clusters = Grouper(); n = len(points); points.sort(); the loops start
ScanSort ==
    /\ pc = "start"
    /\ points' = ListSort(points)
    /\ mapping' = <<>>
    /\ i' = 2 /\ j' = 1
    /\ pc' = "loop"
    /\ joined' = {}
    /\ UNCHANGED <<input, xdist, ydist, N, clusters, chainVars, liftVars, otherVars>>

InLoop == pc = "loop" /\ i <= Len(points)
del_x == points[i][1] - points[j][1]
del_y == points[i][2] - points[j][2]
\* del_x > xdist
TooFarX == del_x > xdist
\* the y test without abs()
TooFarYSigned == del_y > ydist
\* abs(del_y) > ydist
TooFarY == Abs(del_y) > ydist

\* if del_x > xdist: break
ScanBreak ==
    /\ InLoop
    /\ TooFarX
    /\ i' = BreakNext(i, j)[1] /\ j' = BreakNext(i, j)[2]
    /\ UNCHANGED joined
    /\ UNCHANGED <<input, points, xdist, ydist, N, mapping, clusters, pc, chainVars, liftVars, otherVars>>

\* if abs(del_y) > ydist: continue
ScanContinue ==
    /\ InLoop
    /\ ~TooFarX
    /\ TooFarY
    /\ i' = ContinueNext(i, j)[1] /\ j' = ContinueNext(i, j)[2]
    /\ UNCHANGED joined
    /\ UNCHANGED <<input, points, xdist, ydist, N, mapping, clusters, pc, chainVars, liftVars, otherVars>>

\* clusters.join(points[i], points[j])
ScanJoin ==
    /\ InLoop
    /\ ~TooFarX
    /\ ~TooFarY
    /\ mapping' = GrouperJoin(mapping, points[i], points[j])
    /\ i' = InnerNext(i, j)[1] /\ j' = InnerNext(i, j)[2]
    /\ joined' = joined \cup {<<i, j>>}
    /\ UNCHANGED <<input, points, xdist, ydist, N, clusters, pc, chainVars, liftVars, otherVars>>

\* clusters = [sorted(cluster) for cluster in list(clusters) if _score(cluster) >= N]
ScanCollect ==
    /\ pc = "loop" /\ i > Len(points)
    /\ \E order \in Orderings({g \in GrouperGroups(mapping) : Keep(g, N)}) :
            clusters' = [k \in DOMAIN order |-> SortedCluster(order[k])]
    /\ pc' = "done"
    /\ UNCHANGED joined
    /\ UNCHANGED <<input, points, xdist, ydist, N, i, j, mapping, chainVars, liftVars, otherVars>>

NextScan == ScanSort \/ ScanBreak \/ ScanContinue \/ ScanJoin \/ ScanCollect

SpecScan == InitScan /\ [][NextScan]_vars

(***************************************************************************)
(* Properties of synteny_scan                                              *)
(***************************************************************************)
\* p and q satisfy both distance bounds
WithinBounds(p, q) == Abs(p[1] - q[1]) <= xdist /\ Abs(p[2] - q[2]) <= ydist

\* the points of c reachable from S by chains of pairs within both bounds
RECURSIVE Reach(_, _)
Reach(S, c) ==
    LET S2 == S \cup {q \in c : \E p \in S : WithinBounds(p, q)}
    IN  IF S2 = S THEN S ELSE Reach(S2, c)

DistinctScore(c) ==
    Min(Cardinality({p[1] : p \in c}), Cardinality({p[2] : p \in c}))

IsAscending(s) ==
    \A a, b \in DOMAIN s : a < b => (PointLe(s[a], s[b]) /\ s[a] # s[b])

\* the ascending duplicate-free list of the points of c
AscendingList(c) == CHOOSE s \in Orderings(c) : IsAscending(s)

ScanDone == pc = "done"

\* C1: any two points of one returned cluster are connected by a chain of
\* points of that cluster whose consecutive pairs satisfy dx <= x_dist and
\* |dy| <= y_dist.
C1_ClusterChained ==
    ScanDone =>
        \A k \in DOMAIN clusters :
            LET c == Range(clusters[k])
            IN  \A p \in c : Reach({p}, c) = c

\* a returned cluster holds two points that are not within the bounds of each
\* other, so that only a chain through a third point connects them
C1_Witness ==
    /\ ScanDone
    /\ \E k \in DOMAIN clusters :
            \E p, q \in Range(clusters[k]) : ~WithinBounds(p, q)

\* C2: in the partition computed by the scan (before the min_score filter)
\* every pair of input points within both bounds is in the same group.
C2_NoUnmergedPair ==
    ScanDone =>
        \A a, b \in DOMAIN input :
            (a # b /\ WithinBounds(input[a], input[b])) =>
                /\ input[a] \in DOMAIN mapping
                /\ input[b] \in DOMAIN mapping
                /\ mapping[input[a]] = mapping[input[b]]

\* the scan skipped a predecessor that was too far in y and then joined an
\* earlier one
C2_Witness ==
    /\ ScanDone
    /\ \E a, b, c \in DOMAIN points :
            /\ a < b /\ b < c
            /\ points[c][1] - points[b][1] <= xdist
            /\ Abs(points[c][2] - points[b][2]) > ydist
            /\ WithinBounds(points[c], points[a])
            /\ mapping[points[c]] = mapping[points[a]]

ScenarioClusters == <<<<<<0, 0>>, <<1, 1>>, <<2, 2>>>>>>

\* C3: every returned cluster has score >= N, the score being the smaller of
\* the numbers of distinct x and of distinct y values of its members; the
\* scenario {(0,0),(1,1),(2,2),(100,100)} with 5, 5, 2 gives the one cluster
\* {(0,0),(1,1),(2,2)}.
C3_ScoreAtLeastN ==
    ScanDone =>
        /\ \A k \in DOMAIN clusters : DistinctScore(Range(clusters[k])) >= N
        /\ (input = ScenarioPoints /\ xdist = 5 /\ ydist = 5 /\ N = 2)
                => clusters = ScenarioClusters

\* a group of the partition was dropped for its score
C3_Witness ==
    /\ ScanDone
    /\ \E g \in GrouperGroups(mapping) : DistinctScore(Range(g)) < N

\* the single-linkage partition of all the input points
LinkagePartition == {Reach({p}, Range(input)) : p \in Range(input)}

\* C4: the scan returns every block of the single-linkage partition of the
\* input points whose score is >= min_score and drops only the others; with
\* min_score = 1 every input point is in exactly one returned cluster.
C4_AllBlocksReturned ==
    ScanDone =>
        /\ {Range(clusters[k]) : k \in DOMAIN clusters}
                = {b \in LinkagePartition : DistinctScore(b) >= N}
        /\ N = 1 => \A p \in Range(input) :
                Cardinality({k \in DOMAIN clusters : p \in Range(clusters[k])}) = 1

\* the points that the scan hands to the Grouper, from the bag of the input:
\* those that occur twice or have another point within both bounds
Occurrences(v) == Cardinality({k \in DOMAIN input : input[k] = v})
Linked ==
    {v \in Range(input) :
        \/ Occurrences(v) >= 2
        \/ \E w \in Range(input) : w # v /\ WithinBounds(v, w)}
ExpectedClusters ==
    {AscendingList(c) :
        c \in {b \in {Reach({v}, Linked) : v \in Linked} : DistinctScore(b) >= N}}

\* C5: the set of returned clusters (and so each cluster's score) is a
\* function of the bag of input points and the thresholds alone: it is the
\* same for every permutation of the input list.
C5_OrderIndependent ==
    ScanDone =>
        /\ Range(clusters) = ExpectedClusters
        /\ Len(clusters) = Cardinality(ExpectedClusters)

\* the scan ran on a list that was not in ascending order and returned a
\* cluster
C5_Witness ==
    /\ ScanDone
    /\ input # points
    /\ Len(clusters) >= 1

(***************************************************************************)
(* range_chain (jcvi.utils.range): one maximum-total-score subset of        *)
(* mutually non-overlapping Ranges, by the standard dynamic programme:     *)
(* sort by end coordinate, best score achievable up to each Range,         *)
(* reconstruct the selected subset.                                        *)
(***************************************************************************)
Overlap(a, b) == a.start < b.end /\ b.start < a.end

EndLe(a, b) == a.end < b.end \/ (a.end = b.end /\ a.start <= b.start)

RECURSIVE InsertByEnd(_, _)
InsertByEnd(s, r) ==
    IF s = <<>> THEN <<r>>
    ELSE IF EndLe(r, Head(s)) /\ ~(EndLe(Head(s), r)) THEN <<r>> \o s
    ELSE <<Head(s)>> \o InsertByEnd(Tail(s), r)

RECURSIVE SortByEnd(_)
SortByEnd(s) ==
    IF s = <<>> THEN <<>>
    ELSE InsertByEnd(SortByEnd(SubSeq(s, 1, Len(s) - 1)), s[Len(s)])

\* the last Range before k (in end order) that ends at or before the start of k
LastBefore(s, k) ==
    LET ok == {m \in 1..(k - 1) : s[m].end <= s[k].start}
    IN  IF ok = {} THEN 0 ELSE CHOOSE m \in ok : \A o \in ok : o <= m

\* the table of <<best score, chosen Ranges>> for the first 0..k Ranges of s,
\* entry k at index k + 1
RECURSIVE ChainTable(_, _)
ChainTable(s, k) ==
    IF k = 0 THEN << <<0, <<>>>> >>
    ELSE LET t == ChainTable(s, k - 1)
             skip == t[k]
             prev == t[LastBefore(s, k) + 1]
         IN  IF s[k].score + prev[1] > skip[1]
             THEN Append(t, <<s[k].score + prev[1], Append(prev[2], s[k])>>)
             ELSE Append(t, skip)

\* returns (selected, score)
range_chain(rs) ==
    LET s == SortByEnd(rs)
        last == ChainTable(s, Len(s))[Len(s) + 1]
    IN  <<last[2], last[1]>>

(***************************************************************************)
(* The chaining loop of mcscan                                             *)
(***************************************************************************)
\* ranges as built from the anchor file, opts.iter = m, before the loop
ChainStart(r, m) ==
    /\ blocks = r /\ ranges = r
    /\ iter = m
    /\ tracks = <<>> /\ iteration = 0
    /\ cpc = "loop"

InitChain ==
    /\ \/ \E l \in SeqsUpTo(Intervals \X Scores, MaxRanges), m \in Iters :
            ChainStart(MakeRanges(l), m)
       \/ ChainStart(ScenarioRanges, 2)
    /\ IdleScan /\ IdleLift /\ IdleOther

\* the first Range of the pool taken for the chain
SelectedFirstOnly(rs) == SubSeq(rs, 1, 1)
\* the whole pool taken for the chain
SelectedWholePool(rs) == rs
\* selected, score = range_chain(ranges)
Selected(rs) == range_chain(rs)[1]

IdsOf(t) == {t[k].id : k \in DOMAIN t}

\* the members of the track kept in the pool, the others removed
RemainingInverted(rs, sel) == SelectSeq(rs, LAMBDA x : x.id \in IdsOf(sel))
\* the selected Ranges removed by start coordinate instead of by id
RemainingByStart(rs, sel) ==
    SelectSeq(rs, LAMBDA x : x.start \notin {sel[k].start : k \in DOMAIN sel})
\* selected = set(x.id for x in selected)
\* ranges = [x for x in ranges if x.id not in selected]
Remaining(rs, sel) == SelectSeq(rs, LAMBDA x : x.id \notin IdsOf(sel))

\* the cap tested one pass late
CappedLate(it, m) == it > m
\* if iteration >= opts.iter: break
Capped(it, m) == it >= m

\* the loop goes on whatever is left in the pool
PoolAlways(rs) == TRUE
\* while ranges:
PoolLeft(rs) == rs # <<>>

\* one pass of `while ranges:` with iteration < opts.iter
ChainPass ==
    /\ cpc = "loop"
    /\ PoolLeft(ranges)
    /\ ~Capped(iteration, iter)
    /\ LET selected == Selected(ranges)
       IN  /\ tracks' = Append(tracks, selected)
           /\ ranges' = Remaining(ranges, selected)
    /\ iteration' = iteration + 1
    /\ UNCHANGED <<blocks, iter, cpc, scanVars, liftVars, otherVars>>

\* `while ranges:` ends with the pool empty
ChainExhausted ==
    /\ cpc = "loop"
    /\ ~PoolLeft(ranges)
    /\ cpc' = "done"
    /\ UNCHANGED <<blocks, ranges, tracks, iteration, iter, scanVars, liftVars, otherVars>>

\* if iteration >= opts.iter: break
ChainCapped ==
    /\ cpc = "loop"
    /\ PoolLeft(ranges)
    /\ Capped(iteration, iter)
    /\ cpc' = "done"
    /\ UNCHANGED <<blocks, ranges, tracks, iteration, iter, scanVars, liftVars, otherVars>>

NextChain == ChainPass \/ ChainExhausted \/ ChainCapped

SpecChain == InitChain /\ [][NextChain]_vars

(***************************************************************************)
(* Properties of the chaining loop                                         *)
(***************************************************************************)
RECURSIVE SumScores(_)
SumScores(S) ==
    IF S = {} THEN 0
    ELSE LET r == CHOOSE x \in S : TRUE IN r.score + SumScores(S \ {r})

TotalScore(t) == SumScores(Range(t))

\* the pool at the start of pass k: the blocks in no earlier track
PoolAt(k) ==
    {r \in Range(blocks) : \A m \in 1..(k - 1) : r.id \notin IdsOf(tracks[m])}

NonOverlapping(S) == \A a, b \in S : a # b => ~Overlap(a, b)

ChainDone == cpc = "done"

\* one of the three branches of the loop can run
ChainCanStep ==
    cpc = "loop" /\ (ranges = <<>> \/ iteration >= iter \/ iteration < iter)

\* what is left to do: the exit, and at most one pass per Range of the pool
ChainVariant == IF ChainDone THEN 0 ELSE 1 + Len(ranges)

\* C6: in every track of every pass no two distinct Ranges overlap, a and b
\* overlapping iff start_a < end_b and start_b < end_a.
C6_TracksNonOverlapping ==
    \A k \in DOMAIN tracks :
        \A a, b \in DOMAIN tracks[k] :
            a # b => ~(/\ tracks[k][a].start < tracks[k][b].end
                       /\ tracks[k][b].start < tracks[k][a].end)

\* a later pass emitted a track of two Ranges out of a pool in which some
\* Ranges overlapped
C6_Witness ==
    /\ Len(tracks) >= 2
    /\ Len(tracks[2]) >= 2
    /\ ~NonOverlapping(Range(blocks))

\* C7: the track of pass k is a non-overlapping subset of the pool at the
\* start of pass k whose total score is >= that of every mutually
\* non-overlapping subset of that pool; for the scenario Track 1 = {1, 3}
\* with score 9.
C7_TrackOptimal ==
    /\ \A k \in DOMAIN tracks :
            /\ Range(tracks[k]) \subseteq PoolAt(k)
            /\ \A S \in SUBSET PoolAt(k) :
                    NonOverlapping(S) => TotalScore(tracks[k]) >= SumScores(S)
    /\ (blocks = ScenarioRanges /\ Len(tracks) >= 1) =>
            (IdsOf(tracks[1]) = {1, 3} /\ TotalScore(tracks[1]) = 9)

\* a second pass ran, and its pool held a non-overlapping subset of positive
\* score other than the track chosen
C7_Witness ==
    /\ Len(tracks) >= 2
    /\ \E S \in SUBSET PoolAt(2) :
            /\ NonOverlapping(S) /\ S # {} /\ S # Range(tracks[2])
            /\ SumScores(S) < TotalScore(tracks[2])

\* C8: the loop terminates; every pass selects a non-empty track and
\* strictly shrinks the pool, so at most min(max_iterations, number of input
\* Ranges) tracks are emitted.
\* (the loop is not stuck before it ends, and every step lowers ChainVariant)
C8_Terminates ==
    /\ [](ChainDone \/ ChainCanStep)
    /\ [][ChainVariant' < ChainVariant]_vars
    /\ [][tracks' # tracks =>
            (tracks'[Len(tracks')] # <<>> /\ Len(ranges') < Len(ranges))]_vars
    /\ [](Len(tracks) <= Min(iter, Len(blocks)))

\* the loop ended after as many passes as there were Ranges
C8_Witness ==
    /\ ChainDone
    /\ Len(blocks) >= 2
    /\ Len(tracks) = Len(blocks)

\* C9: when the pool is exhausted the tracks partition the input Ranges:
\* every input Range is in exactly one track, at one place, and every
\* member of a track is an input Range.
C9_TracksPartition ==
    (ChainDone /\ ranges = <<>>) =>
        /\ \A r \in Range(blocks) :
                Cardinality({km \in (DOMAIN tracks) \X (1..Len(blocks)) :
                                /\ km[2] \in DOMAIN tracks[km[1]]
                                /\ tracks[km[1]][km[2]].id = r.id}) = 1
        /\ \A k \in DOMAIN tracks : Range(tracks[k]) \subseteq Range(blocks)

\* the pool ran empty after two or more passes
C9_Witness ==
    /\ ChainDone
    /\ ranges = <<>>
    /\ Len(tracks) >= 2
    /\ Len(blocks) >= 3

(***************************************************************************)
(* synteny_liftover(points, anchors, dist)                                 *)
(***************************************************************************)
\* the distance reported for a point without a neighbour in range
Infinity == 1000000

\* ppoints = points[:, :2] if points.shape[1] > 2 else points
PPoint(p) == IF Len(p) > 2 THEN SubSeq(p, 1, 2) ELSE p

\* Minkowski distance with p=1
L1(p, q) == Abs(p[1] - q[1]) + Abs(p[2] - q[2])

\* cKDTree.query(x, p=1, distance_upper_bound=d) for one point x: the
\* possible (distance, index) results. A neighbour counts only at a distance
\* below the upper bound; without one the result is (inf, tree.n). Indices
\* are 1-based here, so tree.n is Len(tree) + 1.
TreeQuery(tree, x, d) ==
    LET near == {a \in DOMAIN tree : L1(x, tree[a]) < d}
        nearest == {a \in near : \A b \in near : L1(x, tree[a]) <= L1(x, tree[b])}
    IN  IF near = {} THEN {<<Infinity, Len(tree) + 1>>}
        ELSE {<<L1(x, tree[a]), a>> : a \in nearest}

\* every point taken to be in range
NeverOutOfRange(idx, tree) == FALSE
\* if idx == tree.n
OutOfRange(idx, tree) == idx = Len(tree) + 1

LiftCall(h, a, d) ==
    /\ hits = h /\ anchors = a /\ dist = d
    /\ dists = <<>> /\ idxs = <<>> /\ pos = 0 /\ lifted = <<>>
    /\ lpc = "start"

InitLift ==
    /\ \E h \in SeqsUpTo(LiftPoints, MaxHits) \cup SeqsUpTo(LiftPoints3, MaxHits),
          a \in AnchorLists, d \in Dists :
            LiftCall(h, a, d)
    /\ IdleScan /\ IdleChain /\ IdleOther

\* np.array(points)[..., 1] of an empty list, or a tree of an empty array:
\* the first next() raises
LiftRaise ==
    /\ lpc = "start"
    /\ hits = <<>> \/ anchors = <<>>
    /\ lpc' = "raised"
    /\ UNCHANGED <<hits, anchors, dist, dists, idxs, pos, lifted, scanVars, chainVars, otherVars>>

\* tree = cKDTree(anchors); dists, idxs = tree.query(ppoints, p=1, ...)
LiftQuery ==
    /\ lpc = "start"
    /\ hits # <<>> /\ anchors # <<>>
    /\ \E res \in [DOMAIN hits -> UNION {TreeQuery(anchors, PPoint(hits[h]), dist) :
                                            h \in DOMAIN hits}] :
            /\ \A h \in DOMAIN hits : res[h] \in TreeQuery(anchors, PPoint(hits[h]), dist)
            /\ dists' = [h \in DOMAIN hits |-> res[h][1]]
            /\ idxs' = [h \in DOMAIN hits |-> res[h][2]]
    /\ pos' = 1
    /\ lpc' = "zip"
    /\ UNCHANGED <<hits, anchors, dist, lifted, scanVars, chainVars, otherVars>>

\* if idx == tree.n: continue
LiftSkip ==
    /\ lpc = "zip" /\ pos <= Len(hits)
    /\ OutOfRange(idxs[pos], anchors)
    /\ pos' = pos + 1
    /\ UNCHANGED <<hits, anchors, dist, dists, idxs, lifted, lpc, scanVars, chainVars, otherVars>>

\* the zip taken over ppoints
ZipPPoint(h, k) == PPoint(h[k])
\* for point, dist, idx in zip(points, dists, idxs)
ZipPoint(h, k) == h[k]

\* the points yielded so far, followed by the one yielded first
EmitFirst(out, p) == <<p>> \o out
\* yield point: the generator's output in the order of the yields
Emit(out, p) == Append(out, p)

\* yield point
LiftYield ==
    /\ lpc = "zip" /\ pos <= Len(hits)
    /\ ~OutOfRange(idxs[pos], anchors)
    /\ lifted' = Emit(lifted, ZipPoint(hits, pos))
    /\ pos' = pos + 1
    /\ UNCHANGED <<hits, anchors, dist, dists, idxs, lpc, scanVars, chainVars, otherVars>>

\* the zip is exhausted
LiftEnd ==
    /\ lpc = "zip" /\ pos > Len(hits)
    /\ lpc' = "done"
    /\ UNCHANGED <<hits, anchors, dist, dists, idxs, pos, lifted, scanVars, chainVars, otherVars>>

NextLift == LiftRaise \/ LiftQuery \/ LiftSkip \/ LiftYield \/ LiftEnd

SpecLift == InitLift /\ [][NextLift]_vars

(***************************************************************************)
(* Properties of synteny_liftover                                          *)
(***************************************************************************)
LiftDone == lpc = "done"

\* the least L1 distance from p to an anchor is at most d
MinDistanceWithin(p, d) ==
    \E a \in DOMAIN anchors :
        Abs(p[1] - anchors[a][1]) + Abs(p[2] - anchors[a][2]) <= d

\* C10: no emitted hit has a minimum L1 distance |dx| + |dy| to the anchor
\* set that exceeds max_dist.
C10_LiftedWithinDist ==
    \A m \in DOMAIN lifted : MinDistanceWithin(lifted[m], dist)

\* one hit was emitted and another, farther than max_dist from every anchor,
\* was not
C10_Witness ==
    /\ LiftDone
    /\ Len(lifted) >= 1
    /\ \E h \in DOMAIN hits : ~MinDistanceWithin(hits[h], dist)

\* the hits at the positions of the set D, in their input order
RECURSIVE HitsAt(_, _)
HitsAt(h, D) ==
    IF h = <<>> THEN <<>>
    ELSE HitsAt(SubSeq(h, 1, Len(h) - 1), D)
            \o (IF Len(h) \in D THEN <<h[Len(h)]>> ELSE <<>>)

\* C11: a hit whose minimum L1 distance to the anchor set is at most max_dist
\* (the bound included) is emitted.
C11_HitWithinDistEmitted ==
    LiftDone =>
        \A h \in DOMAIN hits :
            MinDistanceWithin(hits[h], dist) => hits[h] \in Range(lifted)

\* C12: the output is the input hits at a set of positions, in input order,
\* each position at most once; two equal hits get the same decision (it
\* depends only on the hit and the anchors); the anchors are never modified.
C12_LiftedSubsequence ==
    /\ [](LiftDone =>
            \E D \in SUBSET DOMAIN hits :
                /\ lifted = HitsAt(hits, D)
                /\ \A a, b \in DOMAIN hits : hits[a] = hits[b] => (a \in D <=> b \in D))
    /\ [](\A m \in DOMAIN lifted : lifted[m] \in Range(hits))
    /\ [][anchors' = anchors /\ hits' = hits]_vars

\* two different hits were both emitted
C12_Witness ==
    /\ LiftDone
    /\ Len(lifted) = 2
    /\ lifted[1] # lifted[2]

\* C17: with an empty hit list or an empty anchor list synteny_liftover
\* returns the empty sequence and raises nothing.
C17_EmptyLiftReturnsEmpty ==
    (hits = <<>> \/ anchors = <<>>) => lpc # "raised"

(***************************************************************************)
(* Frame of synteny_scan                                                   *)
(***************************************************************************)
\* C20: after the call the caller's point list holds the same points in the
\* same order as before the call.
C20_CallerListUnchanged ==
    ScanDone => points = input

(***************************************************************************)
(* depth: the ranges of the blocks, and the sweep of range_depth           *)
(* (jcvi.utils.range).                                                     *)
(***************************************************************************)
\* min(q), max(q)
MinOf(q) == CHOOSE v \in Range(q) : \A w \in Range(q) : v <= w
MaxOf(q) == CHOOSE v \in Range(q) : \A w \in Range(q) : v >= w

\* the first and the last gene of the block as listed
DepthRangeAsListed(q) == <<q[1], q[Len(q)]>>
\* qrange = (min(q)[0], max(q)[0])
DepthRange(q) == <<MinOf(q), MaxOf(q)>>

\* len(qbed)
Size == MaxGene + 1

\* breakpoints <<position, side>>, side 0 for a start and 1 for an end
EndpointLe(a, b) == a[1] < b[1] \/ (a[1] = b[1] /\ a[2] <= b[2])

RECURSIVE InsertEndpoint(_, _)
InsertEndpoint(s, e) ==
    IF s = <<>> THEN <<e>>
    ELSE IF EndpointLe(e, Head(s)) THEN <<e>> \o s
    ELSE <<Head(s)>> \o InsertEndpoint(Tail(s), e)

\* all start/end breakpoints of the ranges, sorted
RECURSIVE Endpoints(_)
Endpoints(rs) ==
    IF rs = <<>> THEN <<>>
    ELSE InsertEndpoint(InsertEndpoint(Endpoints(Tail(rs)), <<Head(rs)[1], 0>>),
                        <<Head(rs)[2], 1>>)

\* span-length accumulated per counter value
Accumulate(store, k, len) ==
    [x \in DOMAIN store \cup {k} |->
        (IF x \in DOMAIN store THEN store[x] ELSE 0) + (IF x = k THEN len ELSE 0)]

DepthStart(b) ==
    /\ dblocks = b /\ qranges = <<>> /\ endpoints = <<>> /\ epos = 0
    /\ depth = 0 /\ depthstore = <<>> /\ dpc = "start"

InitDepth ==
    /\ \E b \in BlockLists : DepthStart(b)
    /\ IdleScan /\ IdleChain /\ IdleLift /\ IdleGap /\ IdleBatch /\ IdleLater

notDepthVars == <<scanVars, chainVars, liftVars, gapVars, batchVars, laterVars>>

\* for q, s in ac.iter_blocks(): ... qranges.append(qrange)
DepthRanges ==
    /\ dpc = "start"
    /\ qranges' = [b \in DOMAIN dblocks |-> DepthRange(dblocks[b])]
    /\ dpc' = "ranges"
    /\ UNCHANGED <<dblocks, endpoints, epos, depth, depthstore, notDepthVars>>

\* range_depth(qranges, len(qbed)): collect and sort the breakpoints; the
\* positions before the first breakpoint are covered by no range
DepthSort ==
    /\ dpc = "ranges"
    /\ endpoints' = Endpoints(qranges)
    /\ epos' = 1
    /\ depth' = 0
    /\ depthstore' = Accumulate(<<>>, 0, IF qranges = <<>> THEN Size
                                         ELSE Endpoints(qranges)[1][1])
    /\ dpc' = "sweep"
    /\ UNCHANGED <<dblocks, qranges, notDepthVars>>

\* one step of the sweep: the counter moves at the breakpoint, and the span
\* up to the next breakpoint is added to the bucket of the counter
DepthSweep ==
    /\ dpc = "sweep"
    /\ epos < Len(endpoints)
    /\ LET d == depth + (IF endpoints[epos][2] = 0 THEN 1 ELSE -1)
       IN  /\ depth' = d
           /\ depthstore' = Accumulate(depthstore, d,
                                endpoints[epos + 1][1] - endpoints[epos][1])
    /\ epos' = epos + 1
    /\ UNCHANGED <<dblocks, qranges, endpoints, dpc, notDepthVars>>

\* the positions after the last breakpoint are covered by no range
DepthEnd ==
    /\ dpc = "sweep"
    /\ epos >= Len(endpoints)
    /\ depthstore' = IF endpoints = <<>> THEN depthstore
                     ELSE Accumulate(depthstore, 0,
                                     Size - endpoints[Len(endpoints)][1])
    /\ dpc' = "done"
    /\ UNCHANGED <<dblocks, qranges, endpoints, epos, depth, notDepthVars>>

NextDepth == DepthRanges \/ DepthSort \/ DepthSweep \/ DepthEnd

SpecDepth == InitDepth /\ [][NextDepth]_vars

(***************************************************************************)
(* Properties of the depth sweep                                           *)
(***************************************************************************)
DepthDone == dpc = "done"

RECURSIVE SumOver(_, _)
SumOver(f, S) ==
    IF S = {} THEN 0
    ELSE LET x == CHOOSE y \in S : TRUE IN f[x] + SumOver(f, S \ {x})

\* the blocks whose interval covers the position p (the span from p to p + 1)
Covering(p) ==
    {b \in DOMAIN dblocks : MinOf(dblocks[b]) <= p /\ p < MaxOf(dblocks[b])}

\* the positions of the reference covered by exactly k intervals
CoveredBy(k) == {p \in 0..(Size - 1) : Cardinality(Covering(p)) = k}

\* C13: the sum over the multiplicity buckets k of k times the number of
\* positions covered by exactly k intervals (the length of bucket k) equals
\* the sum of the lengths of the input intervals.
C13_DepthSumIdentity ==
    DepthDone =>
        /\ \A k \in DOMAIN depthstore : depthstore[k] = Cardinality(CoveredBy(k))
        /\ SumOver([k \in DOMAIN depthstore |-> k * depthstore[k]], DOMAIN depthstore)
            = SumOver([b \in DOMAIN dblocks |-> MaxOf(dblocks[b]) - MinOf(dblocks[b])],
                      DOMAIN dblocks)

\* three blocks, two of them listed with the larger gene first, and a
\* position covered twice
C13_Witness ==
    /\ DepthDone
    /\ Len(dblocks) = 3
    /\ \E a, b \in DOMAIN dblocks :
            a # b /\ dblocks[a][1] > dblocks[a][Len(dblocks[a])]
                  /\ dblocks[b][1] > dblocks[b][Len(dblocks[b])]
    /\ 2 \in DOMAIN depthstore /\ depthstore[2] > 0

(***************************************************************************)
(* breakpoint: the intervals of the blocks of one scaffold, and the gaps   *)
(* of range_interleave (jcvi.utils.range). The intervals are closed: they  *)
(* hold the positions start..end.                                          *)
(***************************************************************************)
\* the first and the last y of the block as listed
SBlockAsListed(yy) == <<yy[1], yy[Len(yy)]>>
\* sblocks.append((scaffold, min(yy), max(yy))), for the one scaffold
SBlock(yy) == <<MinOf(yy), MaxOf(yy)>>

\* the gaps between consecutive ranges: from just after the end of one to
\* just before the start of the next, where there is a position between
RECURSIVE range_interleave(_)
range_interleave(rs) ==
    IF Len(rs) < 2 THEN <<>>
    ELSE LET istart == rs[1][2] + 1
             iend == rs[2][1] - 1
         IN  (IF istart <= iend THEN <<<<istart, iend>>>> ELSE <<>>)
                \o range_interleave(Tail(rs))

GapStart(b) ==
    /\ yblocks = b /\ sblocks = <<>> /\ iblocks = <<>> /\ gpos = 0
    /\ printed = <<>> /\ gpc = "start"

InitGap ==
    /\ \E b \in YBlockLists : GapStart(b)
    /\ IdleScan /\ IdleChain /\ IdleLift /\ IdleDepth /\ IdleBatch /\ IdleLater

notGapVars == <<scanVars, chainVars, liftVars, depthVars, batchVars, laterVars>>

\* for block in blocks: xx, yy = zip(*block); sblocks.append(...)
GapBlocks ==
    /\ gpc = "start"
    /\ sblocks' = [b \in DOMAIN yblocks |-> SBlock(yblocks[b])]
    /\ gpc' = "blocks"
    /\ UNCHANGED <<yblocks, iblocks, gpos, printed, notGapVars>>

\* iblocks = range_interleave(sblocks)
GapInterleave ==
    /\ gpc = "blocks"
    /\ iblocks' = range_interleave(sblocks)
    /\ gpos' = 1
    /\ gpc' = "print"
    /\ UNCHANGED <<yblocks, sblocks, printed, notGapVars>>

\* print "{0}\t{1}\t{2}".format(ch, start - 1, end)
GapPrint ==
    /\ gpc = "print"
    /\ gpos <= Len(iblocks)
    /\ printed' = Append(printed, <<iblocks[gpos][1] - 1, iblocks[gpos][2]>>)
    /\ gpos' = gpos + 1
    /\ UNCHANGED <<yblocks, sblocks, iblocks, gpc, notGapVars>>

GapEnd ==
    /\ gpc = "print"
    /\ gpos > Len(iblocks)
    /\ gpc' = "done"
    /\ UNCHANGED <<yblocks, sblocks, iblocks, gpos, printed, notGapVars>>

NextGap == GapBlocks \/ GapInterleave \/ GapPrint \/ GapEnd

SpecGap == InitGap /\ [][NextGap]_vars

(***************************************************************************)
(* Properties of the gaps                                                  *)
(***************************************************************************)
GapDone == gpc = "done"

\* the positions of the block b, and of the gap g
Extent(b) == MinOf(yblocks[b])..MaxOf(yblocks[b])
GapExtent(g) == iblocks[g][1]..iblocks[g][2]

\* the blocks are sorted and no two of them share a position
SortedDisjointBlocks ==
    \A b \in DOMAIN yblocks :
        b < Len(yblocks) => MaxOf(yblocks[b]) < MinOf(yblocks[b + 1])

\* C14: for sorted non-overlapping Ranges the gaps are pairwise disjoint and
\* each gap is disjoint from every input Range.
C14_GapsDisjoint ==
    (GapDone /\ SortedDisjointBlocks) =>
        /\ \A g, h \in DOMAIN iblocks : g # h => GapExtent(g) \cap GapExtent(h) = {}
        /\ \A g \in DOMAIN iblocks : \A b \in DOMAIN yblocks :
                GapExtent(g) \cap Extent(b) = {}

\* three sorted blocks apart from each other, with a gap on each side of
\* the middle one
C14_Witness ==
    /\ GapDone /\ SortedDisjointBlocks
    /\ Len(yblocks) = 3
    /\ Len(iblocks) = 2
    /\ \A g \in DOMAIN iblocks : GapExtent(g) # {}

\* C15: for sorted non-overlapping Ranges each gap starts just after the end
\* of one Range and ends just before the start of the next, and the Ranges
\* with the gaps cover every position from the start of the first Range to
\* the end of the last exactly once.
C15_NoUnexplainedGap ==
    (GapDone /\ SortedDisjointBlocks /\ yblocks # <<>>) =>
        /\ \A g \in DOMAIN iblocks :
                \E b \in DOMAIN yblocks :
                    /\ b < Len(yblocks)
                    /\ iblocks[g][1] = MaxOf(yblocks[b]) + 1
                    /\ iblocks[g][2] = MinOf(yblocks[b + 1]) - 1
        /\ \A p \in MinOf(yblocks[1])..MaxOf(yblocks[Len(yblocks)]) :
                Cardinality({b \in DOMAIN yblocks : p \in Extent(b)})
                    + Cardinality({g \in DOMAIN iblocks : p \in GapExtent(g)}) = 1

\* three sorted blocks, two of them abutting and two apart, one listed with
\* its larger position first
C15_Witness ==
    /\ GapDone /\ SortedDisjointBlocks
    /\ Len(yblocks) = 3
    /\ Len(iblocks) = 1
    /\ \E b \in DOMAIN yblocks : yblocks[b][1] > yblocks[b][Len(yblocks[b])]

(***************************************************************************)
(* batch_scan(points, xdist, ydist, N): synteny_scan per chromosome pair.  *)
(* An activation of synteny_scan is a frame [i, j, mapping, clusters, pc]  *)
(* working on the list of its chromosome pair in chr_pair_points.          *)
(***************************************************************************)
\* all_hits[(b.qseqid, b.sseqid)].append((b.qi, b.si)) for b in blasts
RECURSIVE group_hits(_)
group_hits(bs) ==
    IF bs = <<>> THEN <<>>
    ELSE LET all_hits == group_hits(SubSeq(bs, 1, Len(bs) - 1))
             b == bs[Len(bs)]
         IN  [key \in DOMAIN all_hits \cup {b[1]} |->
                IF key = b[1]
                THEN Append(IF key \in DOMAIN all_hits THEN all_hits[key] ELSE <<>>, b[2])
                ELSE all_hits[key]]

\* the chromosome pairs compared by the subject chromosome first
KeyLeBySubject(a, b) == a[2] < b[2] \/ (a[2] = b[2] /\ a[1] <= b[1])
\* Python's tuple order on (qseqid, sseqid)
KeyLe(a, b) == a[1] < b[1] \/ (a[1] = b[1] /\ a[2] <= b[2])

\* sorted(chr_pair_points.keys())
SortedKeys(d) ==
    CHOOSE s \in Orderings(DOMAIN d) :
        \A a, b \in DOMAIN s : a < b => KeyLe(s[a], s[b])

\* a Grouper that holds what the Groupers of the other activations hold
SharedGrouper(fs) ==
    [e \in UNION {DOMAIN fs[k].mapping : k \in DOMAIN fs} |->
        fs[CHOOSE k \in DOMAIN fs : e \in DOMAIN fs[k].mapping].mapping[e]]
\* clusters = Grouper(): a new, empty Grouper for each activation
NewGrouper(fs) == <<>>

\* the activation at the call
NewFrame == [i |-> 0, j |-> 0, mapping |-> <<>>, clusters |-> <<>>, pc |-> "start"]

\* the steps of synteny_scan in the frame f on the list pts: the possible
\* <<frame, list>> after one step (none once it has returned)
FrameStep(f, pts, a, fs) ==
    IF f.pc = "start"
    THEN {<<[f EXCEPT !.mapping = NewGrouper(fs), !.i = 2, !.j = 1, !.pc = "loop"],
            ListSort(pts)>>}
    ELSE IF f.pc = "loop" /\ f.i <= Len(pts)
    THEN LET dx == pts[f.i][1] - pts[f.j][1]
             dy == pts[f.i][2] - pts[f.j][2]
             nxt == IF dx > a.xdist THEN BreakNext(f.i, f.j)
                    ELSE IF Abs(dy) > a.ydist THEN ContinueNext(f.i, f.j)
                    ELSE InnerNext(f.i, f.j)
             m == IF dx > a.xdist \/ Abs(dy) > a.ydist THEN f.mapping
                  ELSE GrouperJoin(f.mapping, pts[f.i], pts[f.j])
         IN  {<<[f EXCEPT !.i = nxt[1], !.j = nxt[2], !.mapping = m], pts>>}
    ELSE IF f.pc = "loop"
    THEN {<<[f EXCEPT !.clusters = [k \in DOMAIN order |-> SortedCluster(order[k])],
                      !.pc = "done"], pts>> :
            order \in Orderings({g \in GrouperGroups(f.mapping) : Keep(g, a.N)})}
    ELSE {}

BatchCall(recs, t, n) ==
    /\ records = recs /\ chr_pair_points = <<>> /\ frames = <<>> /\ cur = 0
    /\ bclusters = <<>>
    /\ bargs = [xdist |-> t[1], ydist |-> t[2], N |-> n]
    /\ bpc = "start"

InitBatch ==
    /\ \E recs \in SeqsUpTo(ChrPairs \X BatchPoints, MaxRecords),
          t \in Thresholds, n \in MinScores : BatchCall(recs, t, n)
    /\ IdleScan /\ IdleChain /\ IdleLift /\ IdleDepth /\ IdleGap /\ IdleLater

notBatchVars == <<scanVars, chainVars, liftVars, depthVars, gapVars, laterVars>>

\* chr_pair_points = group_hits(points); clusters = []
BatchGroup ==
    /\ bpc = "start"
    /\ chr_pair_points' = group_hits(records)
    /\ cur' = 1
    /\ bpc' = "loop"
    /\ UNCHANGED <<records, frames, bclusters, bargs, notBatchVars>>

\* the chromosome pair of this pass of the loop
chr_pair == SortedKeys(chr_pair_points)[cur]
InBatchLoop == bpc = "loop" /\ cur <= Len(SortedKeys(chr_pair_points))

\* points = chr_pair_points[chr_pair]; synteny_scan(points, ...) is called
BatchScanCall ==
    /\ InBatchLoop
    /\ chr_pair \notin DOMAIN frames
    /\ frames' = [k \in DOMAIN frames \cup {chr_pair} |->
                    IF k = chr_pair THEN NewFrame ELSE frames[k]]
    /\ UNCHANGED <<records, chr_pair_points, cur, bclusters, bargs, bpc, notBatchVars>>

\* one step of the activation on the chromosome pair
BatchScanStep ==
    /\ InBatchLoop
    /\ chr_pair \in DOMAIN frames
    /\ \E st \in FrameStep(frames[chr_pair], chr_pair_points[chr_pair], bargs, frames) :
            /\ frames' = [frames EXCEPT ![chr_pair] = st[1]]
            /\ chr_pair_points' = [chr_pair_points EXCEPT ![chr_pair] = st[2]]
    /\ UNCHANGED <<records, cur, bclusters, bargs, bpc, notBatchVars>>

\* clusters.extend(synteny_scan(points, xdist, ydist, N))
BatchExtend ==
    /\ InBatchLoop
    /\ chr_pair \in DOMAIN frames
    /\ frames[chr_pair].pc = "done"
    /\ bclusters' = bclusters \o frames[chr_pair].clusters
    /\ cur' = cur + 1
    /\ UNCHANGED <<records, chr_pair_points, frames, bargs, bpc, notBatchVars>>

\* return clusters
BatchReturn ==
    /\ bpc = "loop"
    /\ cur > Len(SortedKeys(chr_pair_points))
    /\ bpc' = "done"
    /\ UNCHANGED <<records, chr_pair_points, frames, cur, bclusters, bargs, notBatchVars>>

NextBatch == BatchGroup \/ BatchScanCall \/ BatchScanStep \/ BatchExtend \/ BatchReturn

SpecBatch == InitBatch /\ [][NextBatch]_vars

(***************************************************************************)
(* Properties of batch_scan                                                *)
(***************************************************************************)
BatchDone == bpc = "done"

\* the chromosome pairs of the records in ascending lexicographic order
PairsOfRecords == {records[x][1] : x \in DOMAIN records}
LexLess(a, b) == a[1] < b[1] \/ (a[1] = b[1] /\ a[2] < b[2])
AscendingPairs ==
    CHOOSE s \in Orderings(PairsOfRecords) :
        \A a, b \in DOMAIN s : a < b => LexLess(s[a], s[b])

\* the concatenations of one result per key, in the order of keys
RECURSIVE Concats(_, _)
Concats(keys, res) ==
    IF keys = <<>> THEN {<<>>}
    ELSE {x \o y : x \in res[Head(keys)], y \in Concats(Tail(keys), res)}

\* the result of synteny_scan on the points of the chromosome pair k, from
\* the bag of the records alone
PairPoints(k) == {records[x][2] : x \in {y \in DOMAIN records : records[y][1] = k}}
PairOccurrences(k, v) == Cardinality({x \in DOMAIN records : records[x] = <<k, v>>})
BatchWithin(p, q) ==
    Abs(p[1] - q[1]) <= bargs.xdist /\ Abs(p[2] - q[2]) <= bargs.ydist
PairLinked(k) ==
    {v \in PairPoints(k) :
        \/ PairOccurrences(k, v) >= 2
        \/ \E w \in PairPoints(k) : w # v /\ BatchWithin(v, w)}
RECURSIVE BatchReach(_, _)
BatchReach(S, c) ==
    LET S2 == S \cup {q \in c : \E p \in S : BatchWithin(p, q)}
    IN  IF S2 = S THEN S ELSE BatchReach(S2, c)
PairClusters(k) ==
    {AscendingList(c) :
        c \in {b \in {BatchReach({v}, PairLinked(k)) : v \in PairLinked(k)} :
                    DistinctScore(b) >= bargs.N}}

\* C18: the output of batch_scan is the concatenation, in ascending
\* lexicographic order of the chromosome pair, of the clusters of
\* synteny_scan on each pair's points; it is fixed by the bag of the records
\* (up to the order of the clusters of one pair), whatever their order.
C18_KeyOrderedConcatenation ==
    BatchDone =>
        bclusters \in Concats(AscendingPairs,
                              [k \in PairsOfRecords |-> Orderings(PairClusters(k))])

\* the records start with the larger chromosome pair, and each pair gave a
\* cluster, the two clusters being different
C18_Witness ==
    /\ BatchDone
    /\ Len(AscendingPairs) = 2
    /\ records[1][1] = AscendingPairs[2]
    /\ Len(bclusters) = 2
    /\ PairClusters(AscendingPairs[1]) # {}
    /\ PairClusters(AscendingPairs[2]) # {}
    /\ bclusters[1] # bclusters[2]

(***************************************************************************)
(* The chromosome pairs clustered by independent workers: one activation   *)
(* of synteny_scan per pair, their steps interleaved in any order, and the *)
(* results merged by key-ordered concatenation.                            *)
(***************************************************************************)
\* the results of the activations, concatenated in the order of the keys
RECURSIVE MergeByKey(_, _)
MergeByKey(keys, fs) ==
    IF keys = <<>> THEN <<>>
    ELSE fs[Head(keys)].clusters \o MergeByKey(Tail(keys), fs)

\* chr_pair_points = group_hits(points); one worker per chromosome pair
WorkersStart ==
    /\ bpc = "start"
    /\ chr_pair_points' = group_hits(records)
    /\ frames' = [k \in DOMAIN group_hits(records) |-> NewFrame]
    /\ bpc' = "workers"
    /\ UNCHANGED <<records, cur, bclusters, bargs, notBatchVars>>

\* one step of synteny_scan by the worker of the chromosome pair k
WorkerStep ==
    /\ bpc = "workers"
    /\ \E k \in DOMAIN frames :
        \E st \in FrameStep(frames[k], chr_pair_points[k], bargs, frames) :
            /\ frames' = [frames EXCEPT ![k] = st[1]]
            /\ chr_pair_points' = [chr_pair_points EXCEPT ![k] = st[2]]
    /\ UNCHANGED <<records, cur, bclusters, bargs, bpc, notBatchVars>>

\* all workers have returned: the results are merged in sorted key order
WorkersMerge ==
    /\ bpc = "workers"
    /\ \A k \in DOMAIN frames : frames[k].pc = "done"
    /\ bclusters' = MergeByKey(SortedKeys(chr_pair_points), frames)
    /\ bpc' = "done"
    /\ UNCHANGED <<records, chr_pair_points, frames, cur, bargs, notBatchVars>>

NextWorkers == WorkersStart \/ WorkerStep \/ WorkersMerge

SpecWorkers == InitBatch /\ [][NextWorkers]_vars

\* the outputs of synteny_scan run alone from the frame f on the list pts
RECURSIVE RunScan(_, _, _)
RunScan(f, pts, a) ==
    IF f.pc = "done" THEN {f.clusters}
    ELSE UNION {RunScan(st[1], st[2], a) : st \in FrameStep(f, pts, a, <<>>)}

\* the outputs of the sequential batch_scan on the records: the scans run
\* one after the other, to the end, in ascending order of the keys
SequentialOutputs ==
    Concats(AscendingPairs,
            [k \in PairsOfRecords |-> RunScan(NewFrame, group_hits(records)[k], bargs)])

InitComponents ==
    \/ /\ \E p \in SeqsUpTo(PointSet, MaxShort), t \in Thresholds, n \in MinScores :
            ScanCall(p, t[1], t[2], n)
       /\ IdleChain /\ IdleLift /\ IdleOther
    \/ /\ \E l \in SeqsUpTo(Intervals \X Scores, MaxShort), m \in Iters :
            ChainStart(MakeRanges(l), m)
       /\ IdleScan /\ IdleLift /\ IdleOther
    \/ /\ \E recs \in SeqsUpTo(ChrPairs \X BatchPoints, MaxShort),
             t \in Thresholds, n \in MinScores : BatchCall(recs, t, n)
       /\ IdleScan /\ IdleChain /\ IdleLift /\ IdleDepth /\ IdleGap /\ IdleLater
    \/ /\ \E t \in Thresholds, n \in MinScores, m \in Iters :
            /\ ScanCall(<<>>, t[1], t[2], n)
            /\ ChainStart(<<>>, m)
            /\ BatchCall(<<>>, t, n)
       /\ IdleLift /\ IdleDepth /\ IdleGap /\ IdleLater

NextComponents == NextScan \/ NextChain \/ NextBatch

SpecComponents == InitComponents /\ [][NextComponents]_vars

\* C16: on the empty input each of synteny_scan, batch_scan and the chaining
\* loop goes on to its end without failing, and returns an empty result:
\* no clusters, no clusters, no tracks.
C16_EmptyInputEmptyResult ==
    /\ (input = <<>> /\ pc \in {"start", "loop"}) => ENABLED NextScan
    /\ (ScanDone /\ input = <<>>) => clusters = <<>>
    /\ (records = <<>> /\ bpc \in {"start", "loop"}) => ENABLED NextBatch
    /\ (BatchDone /\ records = <<>>) => bclusters = <<>>
    /\ (blocks = <<>> /\ cpc = "loop") => ENABLED NextChain
    /\ (ChainDone /\ blocks = <<>>) => tracks = <<>>

\* the three components were each run on the empty input and have returned
C16_Witness ==
    /\ ScanDone /\ input = <<>>
    /\ BatchDone /\ records = <<>>
    /\ ChainDone /\ blocks = <<>>

(***************************************************************************)
(* The loop invariant of the backward scan, and the member lists           *)
(***************************************************************************)
\* C21: the points are processed in ascending (x, y) order; whenever the
\* scan for point i stops at j because x[i] - x[j] > x_dist, no point k < j
\* has x[i] - x[k] <= x_dist; hence the pairs joined are exactly the pairs
\* (i, j), j < i, with dx <= x_dist and |dy| <= y_dist.
C21_ScanLoopInvariant ==
    /\ pc \in {"loop", "done"} =>
            \A a, b \in DOMAIN points : a < b => PointLe(points[a], points[b])
    /\ (pc = "loop" /\ i <= Len(points) /\ points[i][1] - points[j][1] > xdist) =>
            \A k \in 1..(j - 1) : points[i][1] - points[k][1] > xdist
    /\ ScanDone =>
            joined = {pr \in (DOMAIN points) \X (DOMAIN points) :
                        /\ pr[2] < pr[1]
                        /\ points[pr[1]][1] - points[pr[2]][1] <= xdist
                        /\ Abs(points[pr[1]][2] - points[pr[2]][2]) <= ydist}

\* the scan ran on a list given out of order, stopped for one point with
\* earlier points left unvisited, and joined a pair
C21_Witness ==
    /\ ScanDone
    /\ input # points
    /\ joined # {}
    /\ \E a, b, c \in DOMAIN points :
            /\ c < b /\ b < a
            /\ points[a][1] - points[b][1] > xdist

\* C22: each returned cluster lists its member points in ascending (x, y)
\* order with no point repeated.
C22_ClusterSortedDistinct ==
    ScanDone =>
        \A k \in DOMAIN clusters :
            \A a, b \in DOMAIN clusters[k] :
                a < b => (PointLe(clusters[k][a], clusters[k][b])
                            /\ clusters[k][a] # clusters[k][b])

\* a cluster of two members came out of a list given out of order that
\* holds one of the members twice
C22_Witness ==
    /\ ScanDone
    /\ input # points
    /\ \E k \in DOMAIN clusters :
            /\ Len(clusters[k]) = 2
            /\ \E a, b \in DOMAIN input :
                    a # b /\ input[a] = input[b] /\ input[a] \in Range(clusters[k])

(***************************************************************************)
(* Chromosome pairs are kept apart by batch_scan                           *)
(***************************************************************************)
\* C23: every cluster returned by batch_scan is made of points of one
\* chromosome pair, linked through points of that pair alone; records with
\* equal coordinates under different pairs are never merged into one
\* cluster.
C23_PairsKeptApart ==
    BatchDone =>
        /\ bclusters = MergeByKey(AscendingPairs, frames)
        /\ \A k \in DOMAIN frames : \A c \in DOMAIN frames[k].clusters :
                LET cluster == Range(frames[k].clusters[c])
                IN  /\ cluster \subseteq PairPoints(k)
                    /\ \A p \in cluster : cluster \subseteq BatchReach({p}, PairPoints(k))
        /\ \A k \in DOMAIN frames :
                Len(frames[k].clusters) = Cardinality(PairClusters(k))

\* two chromosome pairs hold points of equal coordinates within the bounds
\* of each other, and each pair gave its own cluster of them
C23_Witness ==
    /\ BatchDone
    /\ Len(AscendingPairs) = 2
    /\ PairPoints(AscendingPairs[1]) = PairPoints(AscendingPairs[2])
    /\ Len(bclusters) = 2
    /\ bclusters[1] = bclusters[2]
    /\ Len(bclusters[1]) = 2

(***************************************************************************)
(* The iteration cap and the order of the tracks                           *)
(***************************************************************************)
\* C24: when the cap stops the loop with Ranges still in the pool, exactly
\* opts.iter tracks have been emitted and no remaining Range is in a track;
\* no pass runs once the cap is reached.
C24_CapDropsRemaining ==
    /\ []((ChainDone /\ ranges # <<>>) =>
            /\ Len(tracks) = iter
            /\ \A r \in DOMAIN ranges : \A k \in DOMAIN tracks :
                    ranges[r].id \notin IdsOf(tracks[k]))
    /\ [][(iteration >= iter \/ ChainDone) => (tracks' = tracks /\ ranges' = ranges)]_vars

\* the cap of two passes stopped the loop with a Range left in the pool
C24_Witness ==
    /\ ChainDone
    /\ ranges # <<>>
    /\ iter = 2
    /\ Len(tracks) = 2

\* C25: the tracks are in pass order and their total scores do not
\* increase: score(Track k) >= score(Track k+1) for every k.
C25_TrackScoresNonIncreasing ==
    /\ \A k \in DOMAIN tracks :
            /\ Range(tracks[k]) \subseteq PoolAt(k)
            /\ k < Len(tracks) =>
                    TotalScore(tracks[k]) >= TotalScore(tracks[k + 1])
    /\ Len(tracks) = iteration

\* three tracks, the first scoring more than the last
C25_Witness ==
    /\ ChainDone
    /\ Len(tracks) = 3
    /\ TotalScore(tracks[1]) > TotalScore(tracks[3])

(***************************************************************************)
(* The distance of the liftover and the fields of a hit                    *)
(***************************************************************************)
\* |dx| + |dy| from hit h to anchor a, on the first two coordinates
HitDistance(h, a) ==
    Abs(hits[h][1] - anchors[a][1]) + Abs(hits[h][2] - anchors[a][2])

\* C26: for every hit the distance compared with max_dist is the minimum
\* over all anchors of |dx| + |dy| on the first two coordinates (no anchor
\* is closer than the one used); the fields after them do not enter the
\* decision, and an emitted point is the hit with all its fields.
C26_NearestOnFirstTwo ==
    /\ lpc \in {"zip", "done"} =>
        \A h \in DOMAIN hits :
            IF OutOfRange(idxs[h], anchors)
            THEN \A a \in DOMAIN anchors : HitDistance(h, a) >= dist
            ELSE /\ dists[h] = HitDistance(h, idxs[h])
                 /\ \A a \in DOMAIN anchors : HitDistance(h, a) >= dists[h]
    /\ LiftDone =>
        lifted = HitsAt(hits, {h \in DOMAIN hits :
                                \E a \in DOMAIN anchors : HitDistance(h, a) < dist})

\* a hit with a third field was emitted with it, its nearest anchor being
\* the second of two anchors at different distances
C26_Witness ==
    /\ LiftDone
    /\ Len(anchors) = 2
    /\ \E h \in DOMAIN hits :
            /\ Len(hits[h]) = 3
            /\ hits[h] \in Range(lifted)
            /\ idxs[h] = 2
            /\ HitDistance(h, 2) < HitDistance(h, 1)

(***************************************************************************)
(* The liftover command: synteny_liftover per chromosome pair of the       *)
(* anchors.                                                                *)
(***************************************************************************)
\* the anchors of all chromosome pairs together
AnchorsOfAll(d, key) == [x \in DOMAIN anchorrecs |-> anchorrecs[x][2]]
\* anchors = np.array(all_anchors[chr_pair])
AnchorsOf(d, key) == d[key]

\* hits = np.array(all_hits[chr_pair]), all_hits being a defaultdict(list)
HitsOf(d, key) == IF key \in DOMAIN d THEN d[key] ELSE <<>>

CmdStart(h, a, d) ==
    /\ hitrecs = h /\ anchorrecs = a /\ cdist = d
    /\ lo_hits = <<>> /\ lo_anchors = <<>> /\ lcur = 0 /\ emitted = <<>>
    /\ mpc = "start"

InitCmd ==
    /\ \E h \in SeqsUpTo(CmdRecords, MaxCmdHits), a \in CmdAnchorRecs, d \in Dists :
            CmdStart(h, a, d)
    /\ IdleScan /\ IdleChain /\ IdleLift /\ IdleDepth /\ IdleGap /\ IdleBatch
    /\ IdleBlast /\ IdleMc

notCmdVars == <<scanVars, chainVars, depthVars, gapVars, batchVars, blastVars, mcVars>>

\* all_hits = group_hits(filtered_blast); all_anchors = read_anchors(...)
CmdRead ==
    /\ mpc = "start"
    /\ lo_hits' = group_hits(hitrecs)
    /\ lo_anchors' = group_hits(anchorrecs)
    /\ lcur' = 1
    /\ mpc' = "loop"
    /\ UNCHANGED <<hitrecs, anchorrecs, emitted, cdist, liftVars, notCmdVars>>

\* the chromosome pair of this pass of the loop
lo_pair == SortedKeys(lo_anchors)[lcur]
InCmdLoop == mpc = "loop" /\ lcur <= Len(SortedKeys(lo_anchors))

\* if not len(hits): continue
CmdSkip ==
    /\ InCmdLoop
    /\ HitsOf(lo_hits, lo_pair) = <<>>
    /\ lo_hits' = [k \in DOMAIN lo_hits \cup {lo_pair} |-> HitsOf(lo_hits, k)]
    /\ lcur' = lcur + 1
    /\ UNCHANGED <<hitrecs, anchorrecs, lo_anchors, emitted, cdist, mpc, liftVars, notCmdVars>>

\* synteny_liftover(hits, anchors, dist) is called
CmdCall ==
    /\ InCmdLoop
    /\ HitsOf(lo_hits, lo_pair) # <<>>
    /\ hits' = HitsOf(lo_hits, lo_pair)
    /\ anchors' = AnchorsOf(lo_anchors, lo_pair)
    /\ dist' = cdist
    /\ dists' = <<>> /\ idxs' = <<>> /\ pos' = 0 /\ lifted' = <<>>
    /\ lpc' = "start"
    /\ mpc' = "call"
    /\ UNCHANGED <<hitrecs, anchorrecs, lo_hits, lo_anchors, lcur, emitted, cdist, notCmdVars>>

\* for point in synteny_liftover(...): qi, si = point[:2]; print ...
CmdPrint ==
    /\ mpc = "call"
    /\ lpc = "done"
    /\ emitted' = emitted \o [m \in DOMAIN lifted |-> <<lo_pair, SubSeq(lifted[m], 1, 2)>>]
    /\ lcur' = lcur + 1
    /\ mpc' = "loop"
    /\ hits' = <<>> /\ anchors' = <<>> /\ dist' = 0 /\ dists' = <<>> /\ idxs' = <<>>
    /\ pos' = 0 /\ lifted' = <<>> /\ lpc' = "idle"
    /\ UNCHANGED <<hitrecs, anchorrecs, lo_hits, lo_anchors, cdist, notCmdVars>>

\* the loop over the chromosome pairs is exhausted
CmdEnd ==
    /\ mpc = "loop"
    /\ lcur > Len(SortedKeys(lo_anchors))
    /\ mpc' = "done"
    /\ UNCHANGED <<hitrecs, anchorrecs, lo_hits, lo_anchors, lcur, emitted, cdist, liftVars, notCmdVars>>

\* no call is made with an empty array, so the call never raises
NextCmd ==
    \/ CmdRead \/ CmdSkip \/ CmdCall \/ CmdPrint \/ CmdEnd
    \/ LiftQuery \/ LiftSkip \/ LiftYield \/ LiftEnd

SpecCmd == InitCmd /\ [][NextCmd]_vars

(***************************************************************************)
(* Properties of the liftover command                                      *)
(***************************************************************************)
CmdDone == mpc = "done"

\* the points of the records of the chromosome pair k, in their order
RECURSIVE PointsOfPair(_, _)
PointsOfPair(recs, k) ==
    IF recs = <<>> THEN <<>>
    ELSE (IF Head(recs)[1] = k THEN <<Head(recs)[2]>> ELSE <<>>)
            \o PointsOfPair(Tail(recs), k)

\* C27: a hit is compared with the anchors of its own chromosome pair only:
\* every emitted hit has an anchor of its own pair within opts.dist, a hit of
\* a pair without anchors is never emitted, and the pairs are processed in
\* ascending key order.
C27_LiftoverWithinPair ==
    /\ mpc = "call" =>
            /\ hits = PointsOfPair(hitrecs, lo_pair)
            /\ anchors = PointsOfPair(anchorrecs, lo_pair)
            /\ lpc # "raised"
    /\ \A e \in DOMAIN emitted :
            /\ <<emitted[e][1], emitted[e][2]>> \in Range(hitrecs)
            /\ \E a \in DOMAIN anchorrecs :
                    /\ anchorrecs[a][1] = emitted[e][1]
                    /\ L1(emitted[e][2], anchorrecs[a][2]) <= cdist
    /\ \A e, f \in DOMAIN emitted :
            e < f => (emitted[e][1] = emitted[f][1] \/ LexLess(emitted[e][1], emitted[f][1]))

\* a hit was emitted for the anchor of its own pair, and a hit of another
\* pair, at the coordinates of that anchor, was not, its pair having no
\* anchor
C27_Witness ==
    /\ CmdDone
    /\ Len(emitted) = 1
    /\ \E h \in DOMAIN hitrecs :
            /\ hitrecs[h][1] # emitted[1][1]
            /\ \A a \in DOMAIN anchorrecs : anchorrecs[a][1] # hitrecs[h][1]
            /\ \E a \in DOMAIN anchorrecs : anchorrecs[a][2] = hitrecs[h][2]

(***************************************************************************)
(* read_blast(blast_file, qorder, sorder, is_self)                         *)
(***************************************************************************)
\* the coordinates swapped, the chromosomes left as they were
CanonicalCoordsOnly(qi, q, si, s) ==
    IF qi > si THEN <<si, q, qi, s>> ELSE <<qi, q, si, s>>
\* if is_self and qi > si: qi, si = si, qi; q, s = s, q
Canonical(qi, q, si, s) ==
    IF qi > si THEN <<si, s, qi, q>> ELSE <<qi, q, si, s>>

\* the BlastLine b as appended: b.query and b.subject are the names of the
\* row; b.qseqid, b.sseqid, b.qi, b.si are set at lines 83-84
BlastRecord(query, subject, self) ==
    LET qi == GeneOrder[query][1]
        q == GeneOrder[query][2]
        si == GeneOrder[subject][1]
        s == GeneOrder[subject][2]
        c == IF self THEN Canonical(qi, q, si, s) ELSE <<qi, q, si, s>>
    IN  [query |-> query, subject |-> subject,
         qseqid |-> c[2], sseqid |-> c[4], qi |-> c[1], si |-> c[3]]

BlastCall(r, self) ==
    /\ rows = r /\ is_self = self
    /\ seen = {} /\ filtered_blast = <<>> /\ rpos = 1
    /\ rpc = "loop"

InitBlast ==
    /\ \E r \in SeqsUpTo(GeneNames \X GeneNames, MaxRows), self \in BOOLEAN :
            BlastCall(r, self)
    /\ IdleScan /\ IdleChain /\ IdleLift /\ IdleDepth /\ IdleGap /\ IdleBatch
    /\ IdleCmd /\ IdleMc

notBlastVars ==
    <<scanVars, chainVars, liftVars, depthVars, gapVars, batchVars, cmdVars, mcVars>>

InBlastLoop == rpc = "loop" /\ rpos <= Len(rows)
InOrder(row) == row[1] \in DOMAIN GeneOrder /\ row[2] \in DOMAIN GeneOrder

\* if query not in qorder or subject not in sorder: continue
BlastUnknown ==
    /\ InBlastLoop
    /\ ~InOrder(rows[rpos])
    /\ rpos' = rpos + 1
    /\ UNCHANGED <<rows, is_self, seen, filtered_blast, rpc, notBlastVars>>

\* key = query, subject; if key in seen: continue
BlastSeen ==
    /\ InBlastLoop
    /\ InOrder(rows[rpos])
    /\ rows[rpos] \in seen
    /\ rpos' = rpos + 1
    /\ UNCHANGED <<rows, is_self, seen, filtered_blast, rpc, notBlastVars>>

\* seen.add(key); ...; filtered_blast.append(b)
BlastKeep ==
    /\ InBlastLoop
    /\ InOrder(rows[rpos])
    /\ rows[rpos] \notin seen
    /\ seen' = seen \cup {rows[rpos]}
    /\ filtered_blast' =
            Append(filtered_blast, BlastRecord(rows[rpos][1], rows[rpos][2], is_self))
    /\ rpos' = rpos + 1
    /\ UNCHANGED <<rows, is_self, rpc, notBlastVars>>

\* return filtered_blast
BlastReturn ==
    /\ rpc = "loop"
    /\ rpos > Len(rows)
    /\ rpc' = "done"
    /\ UNCHANGED <<rows, is_self, seen, filtered_blast, rpos, notBlastVars>>

NextBlast == BlastUnknown \/ BlastSeen \/ BlastKeep \/ BlastReturn

SpecBlast == InitBlast /\ [][NextBlast]_vars

(***************************************************************************)
(* Properties of read_blast                                                *)
(***************************************************************************)
BlastDone == rpc = "done"

\* the chromosome of the gene at index v
SeqidAt(v) == GeneOrder[CHOOSE g \in DOMAIN GeneOrder : GeneOrder[g][1] = v][2]

\* the chromosome pair and the point of a kept record
KeyPoint(b) == <<b.qseqid, b.sseqid, b.qi, b.si>>

\* C28: with self-comparison every kept record has qi <= si, its key
\* (qseqid, sseqid) is that of the swapped coordinates, and a pair and its
\* mirror image have the same point under the same key.
C28_SelfCanonical ==
    is_self =>
        /\ \A k \in DOMAIN filtered_blast :
                LET b == filtered_blast[k]
                IN  /\ b.qi <= b.si
                    /\ {b.qi, b.si} = {GeneOrder[b.query][1], GeneOrder[b.subject][1]}
                    /\ b.qseqid = SeqidAt(b.qi)
                    /\ b.sseqid = SeqidAt(b.si)
        /\ \A k, m \in DOMAIN filtered_blast :
                (/\ filtered_blast[k].query = filtered_blast[m].subject
                 /\ filtered_blast[k].subject = filtered_blast[m].query)
                    => KeyPoint(filtered_blast[k]) = KeyPoint(filtered_blast[m])

\* with self-comparison a row and its mirror image, on two chromosomes,
\* were both read
C28_Witness ==
    /\ BlastDone
    /\ is_self
    /\ \E k, m \in DOMAIN filtered_blast :
            /\ k # m
            /\ filtered_blast[k].query = filtered_blast[m].subject
            /\ filtered_blast[k].subject = filtered_blast[m].query
            /\ filtered_blast[k].qseqid # filtered_blast[k].sseqid

\* C29: no two kept records have the same point (qi, si) under the same
\* key; with self-comparison at most one record is kept for (a, b) and
\* (b, a).
C29_KeptRecordsDistinct ==
    \A k, m \in DOMAIN filtered_blast :
        k # m => KeyPoint(filtered_blast[k]) # KeyPoint(filtered_blast[m])

(***************************************************************************)
(* mcscan: the blocks read, the tracks chained, one row per reference gene *)
(***************************************************************************)
\* order = bed.order: the position of a gene in the bed file
BedOrder == [g \in Range(BedGenes) |-> CHOOSE k \in DOMAIN BedGenes : BedGenes[k] = g]

\* if q[0] not in order: q, s = s, q
Oriented(blk) ==
    IF blk[1][1] \notin DOMAIN BedOrder THEN <<blk[2], blk[1]>> ELSE blk

\* pairs = dict(zip(q, s)): a later entry of a key replaces an earlier one
Pairs(blk) ==
    LET q == Oriented(blk)[1]
        s == Oriented(blk)[2]
    IN  [g \in Range(q) |->
            s[CHOOSE k \in DOMAIN q : q[k] = g /\ \A m \in DOMAIN q : q[m] = g => m <= k]]

\* q = [order[x] for x in q]; q.sort()
\* Range("0", q[0], q[-1], score=len(q), id=i)
BlockRange(blk, k) ==
    LET q == Oriented(blk)[1]
        qi == [m \in DOMAIN q |-> BedOrder[q[m]]]
    IN  [start |-> MinOf(qi), end |-> MaxOf(qi), score |-> Len(q), id |-> k]

McscanCall(ac, m, a) ==
    /\ acblocks = ac /\ ascii = a
    /\ block_pairs = <<>> /\ bcur = 0 /\ mrows = <<>>
    /\ xpc = "start"
    /\ blocks = <<>> /\ ranges = <<>> /\ tracks = <<>>
    /\ iteration = 0 /\ iter = m /\ cpc = "idle"

InitMcscan ==
    /\ \E ac \in SeqsUpTo(AnchorBlocks, MaxBlocks), m \in Iters, a \in BOOLEAN :
            McscanCall(ac, m, a)
    /\ IdleScan /\ IdleLift /\ IdleDepth /\ IdleGap /\ IdleBatch
    /\ IdleCmd /\ IdleBlast

notMcVars == <<scanVars, liftVars, depthVars, gapVars, batchVars, cmdVars, blastVars>>

\* for i, (q, s) in enumerate(ac.iter_blocks()): ...
McscanRead ==
    /\ xpc = "start"
    /\ block_pairs' = [k \in DOMAIN acblocks |-> Pairs(acblocks[k])]
    /\ ranges' = [k \in DOMAIN acblocks |-> BlockRange(acblocks[k], k)]
    /\ blocks' = ranges'
    /\ tracks' = <<>> /\ iteration' = 0
    /\ cpc' = "loop"
    /\ xpc' = "chain"
    /\ UNCHANGED <<acblocks, ascii, bcur, mrows, iter, notMcVars>>

\* the first block of the track, in track order, that has the gene as a key
FirstWith(track, id) ==
    LET with == {k \in DOMAIN track : id \in DOMAIN block_pairs[track[k].id]}
    IN  IF with = {} THEN 0 ELSE CHOOSE k \in with : \A m \in with : k <= m

\* for tid in track_ids: anchor = pairs.get(id, "."); break at the first
\* anchor; if ascii and anchor != ".": anchor = "x"
Atom(track, id) ==
    IF FirstWith(track, id) = 0 THEN "."
    ELSE IF ascii THEN "x"
    ELSE block_pairs[track[FirstWith(track, id)].id][id]

\* the loop over the bed is entered once the chaining loop is left
McscanOutput ==
    /\ xpc = "chain"
    /\ cpc = "done"
    /\ bcur' = 1
    /\ xpc' = "rows"
    /\ UNCHANGED <<acblocks, ascii, block_pairs, mrows, chainVars, notMcVars>>

\* for b in bed: ...; print "\t".join((id, sep.join(atoms)))
McscanRow ==
    /\ xpc = "rows"
    /\ bcur <= Len(BedGenes)
    /\ mrows' = Append(mrows,
            <<BedGenes[bcur], [t \in DOMAIN tracks |-> Atom(tracks[t], BedGenes[bcur])]>>)
    /\ bcur' = bcur + 1
    /\ UNCHANGED <<acblocks, ascii, block_pairs, xpc, chainVars, notMcVars>>

McscanEnd ==
    /\ xpc = "rows"
    /\ bcur > Len(BedGenes)
    /\ xpc' = "done"
    /\ UNCHANGED <<acblocks, ascii, block_pairs, bcur, mrows, chainVars, notMcVars>>

NextMcscan ==
    \/ McscanRead \/ ChainPass \/ ChainExhausted \/ ChainCapped
    \/ McscanOutput \/ McscanRow \/ McscanEnd

SpecMcscan == InitMcscan /\ [][NextMcscan]_vars

(***************************************************************************)
(* Properties of the mcscan output                                         *)
(***************************************************************************)
McscanDone == xpc = "done"

\* the blocks of a track that hold an anchor pair for the gene
BlocksWith(track, id) ==
    {k \in DOMAIN track : id \in DOMAIN block_pairs[track[k].id]}

\* every Range is the closed interval of its block's reference positions and
\* no two Ranges of a track overlap
TracksAsGiven ==
    /\ \A k \in DOMAIN blocks :
            LET held == {BedOrder[g] : g \in DOMAIN block_pairs[k]}
            IN  /\ blocks[k].start \in held /\ blocks[k].end \in held
                /\ \A v \in held : blocks[k].start <= v /\ v <= blocks[k].end
    /\ \A t \in DOMAIN tracks : \A k, m \in DOMAIN tracks[t] :
            k # m => ~Overlap(tracks[t][k], tracks[t][m])

\* every row printed has one atom per track
OneColumnPerTrack ==
    \A r \in DOMAIN mrows : Len(mrows[r][2]) = Len(tracks)

\* two blocks of one track hold a pair for one gene and give different anchors
TwoAnchorsInTrack ==
    /\ McscanDone
    /\ ~ascii
    /\ \E t \in DOMAIN tracks : \E k, m \in BlocksWith(tracks[t], "r1") :
            /\ k # m
            /\ block_pairs[tracks[t][k].id]["r1"] # block_pairs[tracks[t][m].id]["r1"]

\* C30: every row of the output has one column per track, and within one
\* track at most one block holds an anchor pair for a given reference gene,
\* the Ranges being closed intervals and the Ranges of a track not
\* overlapping.
C30_OneBlockPerGenePerTrack ==
    (xpc \in {"rows", "done"} /\ TracksAsGiven) =>
        /\ OneColumnPerTrack
        /\ \A t \in DOMAIN tracks : \A g \in Range(BedGenes) :
                Cardinality(BlocksWith(tracks[t], g)) <= 1

====
